---- MODULE Spec2Model ----
(***************************************************************************)
(* Batch Transaction Execution Engine (packages/core/src/batch-manager.ts) *)
(*                                                                         *)
(* The model follows BatchManager: the activeBatches table, createBatch,   *)
(* executeBatch with its atomic and sequential paths, executeWithRetry and *)
(* updateProgress.  One action is the code that runs between two           *)
(* suspension points (await) of an executeBatch call.  The chain and the   *)
(* signer are external: every answer they can give (a value from a small   *)
(* set, or a thrown error) is a nondeterministic choice.  The caller hands  *)
(* executeBatch the list createBatch returned for that batchId (any list   *)
(* for an id createBatch never returned), and its observer does not throw. *)
(***************************************************************************)
EXTENDS Integers, Sequences, FiniteSets, TLC

\* ---------------------------------------------------------------- bounds
MaxIntents == 2        \* longest transaction list handed to the engine
MaxRetries == 1        \* largest config.maxRetries
MaxNonce == 1          \* largest transaction count the chain answers
MaxGas == 2            \* largest receipt.gasUsed
MaxExecs == 1          \* executeBatch calls in one behaviour
MaxCreates == 1        \* createBatch calls in one behaviour
NumBatchIds == 2       \* distinct values generateBatchId can return

BatchIds == 1..NumBatchIds
Calls == {1}
EstCalls == {1, 2}
DelayVals == {0, 500}
GasVals == 1..MaxGas
\* what getGasPrice can answer
GasPrices == {g + 1 : g \in GasVals}

VARIABLES
    activeBatches,   \* Map<string, BatchProgress>
    call,            \* per executeBatch call: position and local variables
    batches,         \* the list createBatch last returned under each batchId
    execCount,       \* number of executeBatch calls started, per batchId
    execs,           \* number of executeBatch calls started
    creates,         \* the createBatch calls so far: input and returned value
    est              \* per estimateBatchCost call: position and local variables

vars == <<activeBatches, call, batches, execCount, execs, creates, est>>

\* ------------------------------------------------------------ data model
\* `${batchId}-${index}`
TxId(b, index) == [batch |-> b, index |-> index]
\* an absent id (currentTransaction of a fresh record, transactions[0]?.id of [])
NoId == [batch |-> 0, index |-> -1]
\* what activeBatches.get(batchId) gives for a missing key
Undefined == [undefined |-> TRUE]
NoReceipt == [status |-> "none", gasUsed |-> 0, effectiveGasPrice |-> 0]
NoResult == [kind |-> "none"]

\* the receipts the chain can answer: either status, and a gas price that
\* differs from the gas used and from one receipt to the other
Receipts == {[status |-> s, gasUsed |-> g, effectiveGasPrice |-> g + 1] :
                s \in {"success", "reverted"}, g \in GasVals}

Configs == [atomic : BOOLEAN, delayMs : DelayVals, maxRetries : 0..MaxRetries,
            onProgress : BOOLEAN]

\* a caller's list of n transactions (Omit<BatchTransaction, 'id'>[]): the
\* k-th has its own recipient and value
Input(n) == [k \in 1..n |-> [to |-> k, value |-> 10 * k]]

\* ids counted from 1
IdsFromOne(b, transactions) ==
    [k \in 1..Len(transactions) |->
        [id |-> TxId(b, k), to |-> transactions[k].to,
         value |-> transactions[k].value]]

\* transactions.map((tx, index) => ({ ...tx, id: `${batchId}-${index}` }))
WithIds(b, transactions) ==
    [k \in 1..Len(transactions) |->
        [id |-> TxId(b, k - 1), to |-> transactions[k].to,
         value |-> transactions[k].value]]

\* the list createBatch returns for n input transactions
Intents(b, n) == WithIds(b, Input(n))

Has(b) == b \in DOMAIN activeBatches

\* a backoff that does not grow
Flat(a) == 1

\* Math.pow(2, attempt)
RECURSIVE Pow2(_)
Pow2(a) == IF a = 0 THEN 1 ELSE 2 * Pow2(a - 1)

\* -------------------------------------------------------- updateProgress
updateProgress(ab, b, updates) ==
    IF b \in DOMAIN ab
    THEN [ab EXCEPT ![b] = [f \in DOMAIN ab[b] |->
              IF f \in DOMAIN updates THEN updates[f] ELSE ab[b][f]]]
    ELSE ab

\* a finally block that leaves the entry in the table
Retain(ab, b) == ab

\* this.activeBatches.delete(batchId)
Delete(ab, b) == [x \in DOMAIN ab \ {b} |-> ab[x]]

\* a mutation that changed status, completed, failed or pending
Affects(before, after) ==
    \/ before.status # after.status
    \/ before.completed # after.completed
    \/ before.failed # after.failed
    \/ before.pending # after.pending

\* A running call is the pair S = [c |-> its record, ab |-> the table].
\* UP is updateProgress applied by the call; the call's mutlog keeps every
\* mutation of its batch's record that Affects it.
\* (the pair S is evaluated once, as T)
UP(S, updates) ==
    LET Updated(T) ==
            LET b == T.c.batchId
                ab2 == updateProgress(T.ab, b, updates)
            IN  [ab |-> ab2,
                 c |-> IF b \in DOMAIN T.ab /\ Affects(T.ab[b], ab2[b])
                       THEN [T.c EXCEPT !.mutlog =
                                Append(@, [before |-> T.ab[b],
                                           after |-> ab2[b]])]
                       ELSE T.c]
    IN  CHOOSE R \in {Updated(T) : T \in {S}} : TRUE

\* an observer that is told only once nothing is pending
onProgressCoalesced(S) ==
    IF S.c.config.onProgress /\ S.c.batchId \in DOMAIN S.ab
       /\ S.ab[S.c.batchId].pending = 0
    THEN [S EXCEPT !.c.notified = Append(@, S.ab[S.c.batchId])]
    ELSE S

\* if (config.onProgress) config.onProgress(this.activeBatches.get(batchId)!)
onProgress(S) ==
    LET Told(T) ==
            IF T.c.config.onProgress
            THEN [T EXCEPT !.c.notified =
                     Append(@, IF T.c.batchId \in DOMAIN T.ab
                               THEN T.ab[T.c.batchId] ELSE Undefined)]
            ELSE T
    IN  CHOOSE R \in {Told(T) : T \in {S}} : TRUE

\* ------------------------------------------------------- call-local state
\* locals of executeBatch / executeAtomic / executeWithRetry, the settled
\* value (ret), and what the collaborators and the observer have seen
IdleCall ==
    [pc |-> "idle", batchId |-> 0, transactions |-> <<>>,
     config |-> [atomic |-> FALSE, delayMs |-> 0, maxRetries |-> 0,
                 onProgress |-> FALSE],
     nonce |-> -1, i |-> 0, attempt |-> 0, lastError |-> "",
     results |-> <<>>, aresults |-> <<>>, totalGasUsed |-> 0, totalCost |-> 0,
     ret |-> NoResult, removed |-> Undefined,
     nonceReads |-> 0, sent |-> <<>>, waited |-> <<>>, notified |-> <<>>,
     mutlog |-> <<>>, delays |-> <<>>, answers |-> <<>>, created |-> FALSE]

\* a collaborator answered the request of position i, attempt: fate is what
\* came back (a receipt status, or the kind of error thrown)
Answer(S, fate) ==
    [S EXCEPT !.c.answers = Append(@, [pos |-> S.c.i, attempt |-> S.c.attempt,
                                       fate |-> fate])]

N(c) == Len(c.transactions)
\* transactions[i] for the 0-based i of the code
Tx(c) == c.transactions[c.i + 1]

\* ----------------------------------------------------- executeBatch tail
\* results.every(r => r.status === 'success')
SomeSuccess(results) ==
    \E k \in 1..Len(results) : results[k].status = "success"
AllSuccess(results) ==
    \A k \in 1..Len(results) : results[k].status = "success"

IsSuccess(r) == r.status = "success"
\* the object executeBatch returns (197-204)
SuccessfulOnly(batchId, success, results, totalGasUsed, totalCost) ==
    [kind |-> "result", batchId |-> batchId, success |-> success,
     transactions |-> SelectSeq(results, IsSuccess),
     totalGasUsed |-> totalGasUsed, totalCost |-> totalCost]
BatchResult(batchId, success, results, totalGasUsed, totalCost) ==
    [kind |-> "result", batchId |-> batchId, success |-> success,
     transactions |-> results,
     totalGasUsed |-> totalGasUsed, totalCost |-> totalCost]

\* lines 191-204 and the finally block: allSuccess, terminal status, return
Finish(S) ==
    LET allSuccess == AllSuccess(S.c.results)
        S1 == UP(S, [status |-> IF allSuccess THEN "completed" ELSE "failed"])
        b == S.c.batchId
    IN  [ab |-> Delete(S1.ab, b),
         c |-> [S1.c EXCEPT
                  !.pc = "done",
                  !.removed = IF b \in DOMAIN S1.ab THEN S1.ab[b] ELSE Undefined,
                  !.ret = BatchResult(b, allSuccess, S.c.results,
                                      S.c.totalGasUsed, S.c.totalCost)]]

\* a catch block that hands back what was gathered so far
ReturnPartial(S, error) == Finish(S)

\* the catch and finally blocks of executeBatch (lines 205-214)
Raise(S, error) ==
    LET S1 == UP(S, [status |-> "failed"])
        b == S.c.batchId
    IN  [ab |-> Delete(S1.ab, b),
         c |-> [S1.c EXCEPT
                  !.pc = "done",
                  !.removed = IF b \in DOMAIN S1.ab THEN S1.ab[b] ELSE Undefined,
                  !.ret = [kind |-> "error", name |-> "TransactionError",
                           message |-> [prefix |-> "Batch execution failed",
                                        cause |-> error]]]]

\* ---------------------------------------------------------------- nonces
\* a nonce counted from the transaction after the pending one
nextNonce(nonce, i) == nonce + i + 1

\* const txNonce = nonce + i (line 150); const nonce = startNonce + i (240)
txNonce(nonce, i) == nonce + i
\* the nonce executeWithRetry hands to sendTransaction on each attempt (333)
freshNonce(nonce, attempt) == nonce + attempt
retryNonce(nonce, attempt) == nonce

\* receipt.gasUsed * receipt.effectiveGasPrice (171, 274)
GasOnly(receipt) == receipt.gasUsed
Cost(receipt) == receipt.gasUsed * receipt.effectiveGasPrice

\* walletClient.sendTransaction is issued: the broadcaster sees the request
sendTransaction(S, nonce, pc) ==
    [S EXCEPT !.c.pc = pc,
              !.c.sent = Append(@, [pos |-> S.c.i, id |-> Tx(S.c).id,
                                    nonce |-> nonce,
                                    attempt |-> S.c.attempt])]

\* publicClient.waitForTransactionReceipt is issued for position i
waitForTransactionReceipt(S, pc) ==
    [S EXCEPT !.c.pc = pc,
              !.c.waited = Append(@, [pos |-> S.c.i, id |-> Tx(S.c).id])]

\* ------------------------------------------------------- sequential path
\* a loop that also broadcasts the next intent while this one is in flight
StartAhead(S) ==
    LET S1 == UP(S, [currentTransaction |-> Tx(S.c).id])
        S2 == [S1 EXCEPT !.c.attempt = 0, !.c.lastError = ""]
        S3 == sendTransaction(S2, txNonce(S2.c.nonce, S2.c.i), "send")
        next == S.c.i + 1
    IN  IF next < N(S.c)
        THEN [S3 EXCEPT !.c.sent =
                 Append(@, [pos |-> next, id |-> S.c.transactions[next + 1].id,
                            nonce |-> txNonce(S.c.nonce, next), attempt |-> 0])]
        ELSE S3

\* lines 157-165 and the first attempt of executeWithRetry (327-337)
StartTx(S) ==
    LET S1 == UP(S, [currentTransaction |-> Tx(S.c).id])
        S2 == [S1 EXCEPT !.c.attempt = 0, !.c.lastError = ""]
    IN  sendTransaction(S2, retryNonce(txNonce(S2.c.nonce, S2.c.i), 0), "send")

\* lines 167-188, then the next iteration of the loop (148-155) or the tail
RecordOutcome(S, result) ==
    LET c == S.c
        b == c.batchId
        n == N(c)
        S1 == [S EXCEPT !.c.results = Append(@, result)]
        ok == result.status = "success" /\ result.receipt # NoReceipt
        S2 == IF ok
              THEN UP([S1 EXCEPT
                         !.c.totalGasUsed = @ + result.receipt.gasUsed,
                         !.c.totalCost = @ + Cost(result.receipt)],
                      [completed |-> c.i + 1, pending |-> n - c.i - 1])
              ELSE UP(S1, [failed |-> S.ab[b].failed + 1,
                           pending |-> n - c.i - 1])
        S3 == onProgress(S2)
        S4 == [S3 EXCEPT !.c.i = @ + 1]
    IN  IF ~ok /\ b \notin DOMAIN S.ab
        THEN \* this.activeBatches.get(batchId)!.failed on undefined
             Raise(S1, [kind |-> "TypeError", tx |-> NoId])
        ELSE IF c.i + 1 < n
             THEN IF c.config.delayMs # 0
                  THEN [S4 EXCEPT !.c.pc = "delay",
                                  !.c.delays = Append(@, c.config.delayMs)]
                  ELSE StartTx(S4)
             ELSE Finish(S3)

\* another attempt follows a thrown error: attempt <= maxRetries holds for
\* attempt + 1 (327), and the backoff is taken (364)
OneMoreAttempt(attempt, maxRetries) == attempt < maxRetries + 1
NeverAgain(attempt, maxRetries) == FALSE
ShouldRetry(attempt, maxRetries) == attempt < maxRetries

\* executeWithRetry's catch block and what follows it (360-375)
RetryOrFail(S, error) ==
    LET c == S.c
        maxRetries == c.config.maxRetries
    IN  IF ShouldRetry(c.attempt, maxRetries)
        THEN [S EXCEPT !.c.lastError = error, !.c.pc = "backoff",
                       !.c.delays = Append(@, Pow2(c.attempt) * 1000)]
        ELSE RecordOutcome(S, [id |-> Tx(c).id, status |-> "failed",
                               receipt |-> NoReceipt, error |-> error,
                               retries |-> maxRetries])

\* an outcome that takes any receipt for a success
AnyReceiptSucceeds(S, receipt) ==
    [id |-> Tx(S.c).id, status |-> "success",
     receipt |-> [status |-> IF receipt.status = "success"
                             THEN "success" ELSE "reverted",
                  gasUsed |-> receipt.gasUsed,
                  effectiveGasPrice |-> receipt.effectiveGasPrice],
     error |-> "", retries |-> S.c.attempt]

\* executeWithRetry's return after a receipt (344-359)
RetryResult(S, receipt) ==
    [id |-> Tx(S.c).id,
     status |-> IF receipt.status = "success" THEN "success" ELSE "failed",
     receipt |-> [status |-> IF receipt.status = "success"
                             THEN "success" ELSE "reverted",
                  gasUsed |-> receipt.gasUsed,
                  effectiveGasPrice |-> receipt.effectiveGasPrice],
     error |-> "", retries |-> S.c.attempt]

\* ----------------------------------------------------------- atomic path
\* one iteration of the send loop up to its await (238-254)
AtomicSend(S) ==
    LET S1 == UP(S, [currentTransaction |-> Tx(S.c).id])
    IN  sendTransaction(S1, txNonce(S1.c.nonce, S1.c.i), "asend")

\* executeAtomic returned (302); executeBatch takes its result (143-145)
AtomicReturn(S) ==
    Finish([S EXCEPT !.c.results = S.c.aresults])

\* a catch block that first replaces every broadcast intent at its nonce
CancelAll(S, error) ==
    Raise([S EXCEPT !.c.sent = @ \o
              [k \in 1..N(S.c) |->
                  [pos |-> k - 1, id |-> NoId,
                   nonce |-> txNonce(S.c.nonce, k - 1), attempt |-> 0]]],
          error)

\* the catch block of executeAtomic (303-313), rethrown into executeBatch
AtomicThrow(S, error) ==
    LET marks == [k \in 1..N(S.c) |->
                     [id |-> S.c.transactions[k].id, status |-> "failed",
                      receipt |-> NoReceipt, error |-> error.kind,
                      retries |-> -1]]
    IN  Raise([S EXCEPT !.c.aresults = @ \o marks], error)

\* receipt.status === 'reverted' (266)
NeverReverted(receipt) == FALSE
Reverted(receipt) == receipt.status = "reverted"

\* the body of the receipt loop after its await (266-300)
AtomicReceipt(S, receipt) ==
    LET c == S.c
        n == N(c)
        S1 == [S EXCEPT
                 !.c.totalGasUsed = @ + receipt.gasUsed,
                 !.c.totalCost = @ + Cost(receipt),
                 !.c.aresults = Append(@,
                     [id |-> Tx(c).id, status |-> "success",
                      receipt |-> [status |-> "success",
                                   gasUsed |-> receipt.gasUsed,
                                   effectiveGasPrice |-> receipt.effectiveGasPrice],
                      error |-> "", retries |-> -1])]
        S2 == UP(S1, [completed |-> c.i + 1, pending |-> n - c.i - 1])
        S3 == onProgress(S2)
    IN  IF Reverted(receipt)
        THEN AtomicThrow(S, [kind |-> "reverted", tx |-> Tx(c).id])
        ELSE IF c.i + 1 < n
             THEN waitForTransactionReceipt([S3 EXCEPT !.c.i = @ + 1], "await")
             ELSE AtomicReturn(S3)

\* ---------------------------------------------------------------- actions
Step(c, S) ==
    \E T \in {S} :
        /\ call' = [call EXCEPT ![c] = T.c]
        /\ activeBatches' = T.ab

Cur(c) == [c |-> call[c], ab |-> activeBatches]

\* generateBatchId: a timestamp and a random suffix; nothing keeps two
\* calls from producing the same string
generateBatchId == BatchIds

\* the record createBatch registers for a list of n transactions
FreshProgress(n) ==
    [total |-> n, completed |-> 0, failed |-> 0, pending |-> n,
     status |-> "pending", currentTransaction |-> NoId]

\* this.activeBatches.set(batchId, progress)
Set(ab, b, progress) ==
    [x \in DOMAIN ab \cup {b} |-> IF x = b THEN progress ELSE ab[x]]

\* createBatch (88-107): synchronous, no collaborator is called
createBatch(transactions) ==
    /\ \E batchId \in generateBatchId :
          LET batchTransactions == WithIds(batchId, transactions)
          IN  /\ activeBatches' = Set(activeBatches, batchId,
                                      FreshProgress(Len(transactions)))
              /\ batches' = Set(batches, batchId, batchTransactions)
              /\ creates' = Append(creates,
                                [input |-> transactions, batchId |-> batchId,
                                 transactions |-> batchTransactions])
    /\ UNCHANGED <<call, execCount, execs, est>>

\* executeBatch up to its first await (117-132); a call slot is free again
\* once its previous call has settled
executeBatch(c, batchId, n, config) ==
    /\ call[c].pc \in {"idle", "done"}
    /\ batchId \in DOMAIN batches => n = Len(batches[batchId])
    /\ LET txs == IF batchId \in DOMAIN batches THEN batches[batchId]
                  ELSE Intents(batchId, n)
           S0 == [ab |-> activeBatches,
                  c |-> [IdleCall EXCEPT !.pc = "nonce", !.batchId = batchId,
                                         !.transactions = txs,
                                         !.config = config,
                                         !.created = batchId \in DOMAIN batches,
                                         !.nonceReads = 1]]
       IN  Step(c, UP(S0, [status |-> "executing",
                           currentTransaction |->
                               IF n > 0 THEN txs[1].id ELSE NoId]))
    /\ execCount' = [execCount EXCEPT ![batchId] = @ + 1]
    /\ execs' = execs + 1
    /\ UNCHANGED <<batches, creates, est>>

\* getTransactionCount answered (130-165)
NonceReturn(c, nonce) ==
    /\ call[c].pc = "nonce"
    /\ LET S == [Cur(c) EXCEPT !.c.nonce = nonce, !.c.i = 0]
       IN  Step(c, IF N(S.c) = 0
                   THEN IF S.c.config.atomic THEN AtomicReturn(S) ELSE Finish(S)
                   ELSE IF S.c.config.atomic THEN AtomicSend(S) ELSE StartTx(S))
    /\ UNCHANGED <<batches, execCount, execs, creates, est>>

\* getTransactionCount threw
NonceFail(c) ==
    /\ call[c].pc = "nonce"
    /\ Step(c, Raise(Cur(c), [kind |-> "nonce lookup", tx |-> NoId]))
    /\ UNCHANGED <<batches, execCount, execs, creates, est>>

\* sequential: sendTransaction answered a hash; the receipt is awaited (339)
SendReturn(c) ==
    /\ call[c].pc = "send"
    /\ Step(c, waitForTransactionReceipt(Cur(c), "wait"))
    /\ UNCHANGED <<batches, execCount, execs, creates, est>>

\* sequential: sendTransaction threw
SendFail(c) ==
    /\ call[c].pc = "send"
    /\ Step(c, RetryOrFail(Answer(Cur(c), "broadcast error"), "broadcast error"))
    /\ UNCHANGED <<batches, execCount, execs, creates, est>>

\* sequential: the receipt arrived
WaitReturn(c, receipt) ==
    /\ call[c].pc = "wait"
    /\ LET S == Answer(Cur(c), receipt.status)
       IN  Step(c, RecordOutcome(S, RetryResult(S, receipt)))
    /\ UNCHANGED <<batches, execCount, execs, creates, est>>

\* sequential: waitForTransactionReceipt threw (confirmation timeout)
WaitFail(c) ==
    /\ call[c].pc = "wait"
    /\ Step(c, RetryOrFail(Answer(Cur(c), "confirmation timeout"),
                           "confirmation timeout"))
    /\ UNCHANGED <<batches, execCount, execs, creates, est>>

\* the backoff delay of executeWithRetry elapsed: next attempt (327-337)
BackoffDone(c) ==
    /\ call[c].pc = "backoff"
    /\ LET S == [Cur(c) EXCEPT !.c.attempt = @ + 1]
       IN  Step(c, sendTransaction(S,
                      retryNonce(txNonce(S.c.nonce, S.c.i), S.c.attempt),
                      "send"))
    /\ UNCHANGED <<batches, execCount, execs, creates, est>>

\* the inter-transaction delay elapsed (154-165)
DelayDone(c) ==
    /\ call[c].pc = "delay"
    /\ Step(c, StartTx(Cur(c)))
    /\ UNCHANGED <<batches, execCount, execs, creates, est>>

\* atomic: each hash is waited for as soon as it is known
AtomicSendThenWait(c) ==
    /\ call[c].pc = "asend"
    /\ Step(c, waitForTransactionReceipt(Cur(c), "await"))
    /\ UNCHANGED <<batches, execCount, execs, creates, est>>

\* atomic: sendTransaction answered a hash (256-264)
AtomicSendReturn(c) ==
    /\ call[c].pc = "asend"
    /\ LET S == Cur(c)
       IN  Step(c, IF S.c.i + 1 < N(S.c)
                   THEN AtomicSend([S EXCEPT !.c.i = @ + 1])
                   ELSE waitForTransactionReceipt([S EXCEPT !.c.i = 0], "await"))
    /\ UNCHANGED <<batches, execCount, execs, creates, est>>

\* atomic: sendTransaction threw
AtomicSendFail(c) ==
    /\ call[c].pc = "asend"
    /\ Step(c, AtomicThrow(Answer(Cur(c), "broadcast error"),
                           [kind |-> "broadcast error", tx |-> NoId]))
    /\ UNCHANGED <<batches, execCount, execs, creates, est>>

\* atomic: a receipt arrived
AtomicWaitReturn(c, receipt) ==
    /\ call[c].pc = "await"
    /\ Step(c, AtomicReceipt(Answer(Cur(c), receipt.status), receipt))
    /\ UNCHANGED <<batches, execCount, execs, creates, est>>

\* atomic: waitForTransactionReceipt threw
AtomicWaitFail(c) ==
    /\ call[c].pc = "await"
    /\ Step(c, AtomicThrow(Answer(Cur(c), "confirmation timeout"),
                           [kind |-> "confirmation timeout", tx |-> NoId]))
    /\ UNCHANGED <<batches, execCount, execs, creates, est>>

\* ------------------------------------------------------ estimateBatchCost
\* locals of estimateBatchCost, the settled value (ret), and what the chain
\* was asked (queries) and answered (estimates, gasPrice)
IdleEstimate ==
    [pc |-> "idle", transactions |-> <<>>, k |-> 0, totalGasLimit |-> 0,
     ret |-> NoResult, queries |-> <<>>, estimates |-> <<>>, gasPrice |-> 0]

\* publicClient.estimateGas({to, value, data, account}) is issued (399-404)
estimateGas(r, k) ==
    [r EXCEPT !.pc = "gas", !.k = k,
              !.queries = Append(@, [kind |-> "estimateGas",
                                     to |-> r.transactions[k].to,
                                     value |-> r.transactions[k].value])]

\* an estimate that also asks for the account's transaction count
getPendingNonce(r) ==
    [r EXCEPT !.pc = "price",
              !.queries = @ \o <<[kind |-> "getTransactionCount"],
                                 [kind |-> "getGasPrice"]>>]

\* publicClient.getGasPrice() is issued (409)
getGasPrice(r) ==
    [r EXCEPT !.pc = "price", !.queries = Append(@, [kind |-> "getGasPrice"])]

\* a total that keeps only the last estimate
Overwrite(totalGasLimit, estimate) == estimate

\* totalGasLimit += estimate (406)
Accumulate(totalGasLimit, estimate) == totalGasLimit + estimate

\* (Number(estimatedCost) / 1e18).toFixed(6), as a count of millionths
toFixed6(estimatedCost) ==
    (((estimatedCost \div 100000) \div 1000000) + 5) \div 10

\* locals whose total goes on from the totals of the other calls
ResumeEstimate(transactions) ==
    [IdleEstimate EXCEPT
        !.transactions = transactions,
        !.totalGasLimit = est[1].totalGasLimit + est[2].totalGasLimit]

\* the locals of a new call: let totalGasLimit = BigInt(0) (397)
StartEstimate(transactions) ==
    [IdleEstimate EXCEPT !.transactions = transactions]

\* estimateBatchCost up to its first await (388-399)
estimateBatchCost(e, transactions) ==
    /\ est[e].pc = "idle"
    /\ LET r == StartEstimate(transactions)
       IN  est' = [est EXCEPT ![e] = IF Len(transactions) = 0
                                     THEN getGasPrice(r)
                                     ELSE estimateGas(r, 1)]
    /\ UNCHANGED <<activeBatches, call, batches, execCount, execs, creates>>

\* estimateGas answered (399-409)
EstimateGasReturn(e, estimate) ==
    /\ est[e].pc = "gas"
    /\ LET r == [est[e] EXCEPT
                    !.totalGasLimit = Accumulate(@, estimate),
                    !.estimates = Append(@, estimate)]
       IN  est' = [est EXCEPT ![e] = IF r.k < Len(r.transactions)
                                     THEN estimateGas(r, r.k + 1)
                                     ELSE getGasPrice(r)]
    /\ UNCHANGED <<activeBatches, call, batches, execCount, execs, creates>>

\* estimateGas threw: estimateBatchCost has no catch, the error goes out
EstimateGasFail(e) ==
    /\ est[e].pc = "gas"
    /\ est' = [est EXCEPT ![e].pc = "done",
                          ![e].ret = [kind |-> "error",
                                      name |-> "estimateGas error"]]
    /\ UNCHANGED <<activeBatches, call, batches, execCount, execs, creates>>

\* getGasPrice answered (409-416)
GasPriceReturn(e, gasPrice) ==
    /\ est[e].pc = "price"
    /\ LET estimatedCost == est[e].totalGasLimit * gasPrice
       IN  est' = [est EXCEPT
                     ![e].pc = "done",
                     ![e].gasPrice = gasPrice,
                     ![e].ret = [kind |-> "result",
                                 totalGasLimit |-> est[e].totalGasLimit,
                                 estimatedCost |-> estimatedCost,
                                 estimatedCostFormatted |->
                                     toFixed6(estimatedCost)]]
    /\ UNCHANGED <<activeBatches, call, batches, execCount, execs, creates>>

\* getGasPrice threw
GasPriceFail(e) ==
    /\ est[e].pc = "price"
    /\ est' = [est EXCEPT ![e].pc = "done",
                          ![e].ret = [kind |-> "error",
                                      name |-> "getGasPrice error"]]
    /\ UNCHANGED <<activeBatches, call, batches, execCount, execs, creates>>

Init ==
    /\ activeBatches = <<>>
    /\ call = [c \in Calls |-> IdleCall]
    /\ batches = <<>>
    /\ execCount = [b \in BatchIds |-> 0]
    /\ execs = 0
    /\ creates = <<>>
    /\ est = [e \in EstCalls |-> IdleEstimate]

Next ==
    \/ \E n \in 0..MaxIntents : Len(creates) < MaxCreates /\ createBatch(Input(n))
    \/ \E c \in Calls, b \in BatchIds, n \in 0..MaxIntents, config \in Configs :
          execs < MaxExecs /\ executeBatch(c, b, n, config)
    \/ \E c \in Calls, nonce \in 0..MaxNonce : NonceReturn(c, nonce)
    \/ \E c \in Calls : NonceFail(c)
    \/ \E c \in Calls : SendReturn(c)
    \/ \E c \in Calls : SendFail(c)
    \/ \E c \in Calls, receipt \in Receipts : WaitReturn(c, receipt)
    \/ \E c \in Calls : WaitFail(c)
    \/ \E c \in Calls : BackoffDone(c)
    \/ \E c \in Calls : DelayDone(c)
    \/ \E c \in Calls : AtomicSendReturn(c)
    \/ \E c \in Calls : AtomicSendFail(c)
    \/ \E c \in Calls, receipt \in Receipts : AtomicWaitReturn(c, receipt)
    \/ \E c \in Calls : AtomicWaitFail(c)

Spec == Init /\ [][Next]_vars

\* ------------------------------------------------------------- fairness
\* what call c is suspended on settles: the collaborator answers or throws,
\* the timer of a delay or of a backoff fires
Settles(c) ==
    \/ \E nonce \in 0..MaxNonce : NonceReturn(c, nonce)
    \/ NonceFail(c)
    \/ SendReturn(c)
    \/ SendFail(c)
    \/ \E receipt \in Receipts : WaitReturn(c, receipt)
    \/ WaitFail(c)
    \/ BackoffDone(c)
    \/ DelayDone(c)
    \/ AtomicSendReturn(c)
    \/ AtomicSendFail(c)
    \/ \E receipt \in Receipts : AtomicWaitReturn(c, receipt)
    \/ AtomicWaitFail(c)

\* The engine with createBatch called before the executeBatch call, without
\* an observer, every receipt using one gas unit
LiveConfigs == {config \in Configs : ~config.onProgress}
LiveReceipts == {receipt \in Receipts : receipt.gasUsed = 1}

NextLive ==
    \/ \E n \in 0..MaxIntents :
          /\ Len(creates) < MaxCreates /\ execs = 0
          /\ createBatch(Input(n))
    \/ \E c \in Calls, b \in BatchIds, n \in 0..MaxIntents,
          config \in LiveConfigs :
          execs < MaxExecs /\ executeBatch(c, b, n, config)
    \/ \E c \in Calls, nonce \in 0..MaxNonce : NonceReturn(c, nonce)
    \/ \E c \in Calls : NonceFail(c)
    \/ \E c \in Calls : SendReturn(c)
    \/ \E c \in Calls : SendFail(c)
    \/ \E c \in Calls, receipt \in LiveReceipts : WaitReturn(c, receipt)
    \/ \E c \in Calls : WaitFail(c)
    \/ \E c \in Calls : BackoffDone(c)
    \/ \E c \in Calls : DelayDone(c)
    \/ \E c \in Calls : AtomicSendReturn(c)
    \/ \E c \in Calls : AtomicSendFail(c)
    \/ \E c \in Calls, receipt \in LiveReceipts : AtomicWaitReturn(c, receipt)
    \/ \E c \in Calls : AtomicWaitFail(c)

\* every awaited promise of a call settles in the end
FairSpec == Init /\ [][NextLive]_vars /\ \A c \in Calls : WF_vars(Settles(c))

\* getBatchProgress (381-383): this.activeBatches.get(batchId)
getBatchProgress(b) == IF Has(b) THEN activeBatches[b] ELSE Undefined

\* ------------------------------------------- one more createBatch call
\* The same engine with one more createBatch call in a behaviour, so that
\* generateBatchId can return a string it returned before.  Calls run
\* without retries and without an inter-transaction delay.
PlainConfigs == {config \in Configs : config.delayMs = 0 /\ config.maxRetries = 0}

NextIds ==
    \/ \E n \in 0..MaxIntents :
          Len(creates) < MaxCreates + 1 /\ createBatch(Input(n))
    \/ \E c \in Calls, b \in BatchIds, n \in 0..MaxIntents,
          config \in PlainConfigs :
          execs < MaxExecs /\ executeBatch(c, b, n, config)
    \/ \E c \in Calls, nonce \in 0..MaxNonce : NonceReturn(c, nonce)
    \/ \E c \in Calls : NonceFail(c)
    \/ \E c \in Calls : SendReturn(c)
    \/ \E c \in Calls : SendFail(c)
    \/ \E c \in Calls, receipt \in Receipts : WaitReturn(c, receipt)
    \/ \E c \in Calls : WaitFail(c)
    \/ \E c \in Calls : AtomicSendReturn(c)
    \/ \E c \in Calls : AtomicSendFail(c)
    \/ \E c \in Calls, receipt \in Receipts : AtomicWaitReturn(c, receipt)
    \/ \E c \in Calls : AtomicWaitFail(c)

SpecIds == Init /\ [][NextIds]_vars

\* ------------------------------------------------- longer atomic batches
\* The atomic path alone, on lists one intent longer than the other
\* specifications take, so that an intent can revert with one confirmed
\* before it and one broadcast after it.
AtomicConfigs == {config \in PlainConfigs : config.atomic}

NextAtomic ==
    \/ \E n \in 0..MaxIntents + 1 :
          Len(creates) < MaxCreates /\ createBatch(Input(n))
    \/ \E c \in Calls, b \in BatchIds, n \in 0..MaxIntents + 1,
          config \in AtomicConfigs :
          execs < MaxExecs /\ executeBatch(c, b, n, config)
    \/ \E c \in Calls, nonce \in 0..MaxNonce : NonceReturn(c, nonce)
    \/ \E c \in Calls : NonceFail(c)
    \/ \E c \in Calls : AtomicSendReturn(c)
    \/ \E c \in Calls : AtomicSendFail(c)
    \/ \E c \in Calls, receipt \in Receipts : AtomicWaitReturn(c, receipt)
    \/ \E c \in Calls : AtomicWaitFail(c)

SpecAtomic == Init /\ [][NextAtomic]_vars

\* ------------------------------------------------------------ re-execution
\* One more executeBatch call than the other specifications allow, so that
\* a batch can be executed again after its first execution settled.  The
\* calls are sequential, without retries, delay or observer.
AgainConfigs == {config \in PlainConfigs : ~config.atomic /\ ~config.onProgress}

NextAgain ==
    \/ \E n \in 0..MaxIntents :
          Len(creates) < MaxCreates /\ createBatch(Input(n))
    \/ \E c \in Calls, b \in BatchIds, n \in 0..MaxIntents,
          config \in AgainConfigs :
          execs < MaxExecs + 1 /\ executeBatch(c, b, n, config)
    \/ \E c \in Calls, nonce \in 0..MaxNonce : NonceReturn(c, nonce)
    \/ \E c \in Calls : NonceFail(c)
    \/ \E c \in Calls : SendReturn(c)
    \/ \E c \in Calls : SendFail(c)
    \/ \E c \in Calls, receipt \in Receipts : WaitReturn(c, receipt)
    \/ \E c \in Calls : WaitFail(c)

SpecAgain == Init /\ [][NextAgain]_vars

\* ---------------------------------------------------------- more retries
\* The sequential path alone with one more retry than the other
\* specifications allow, so that a second backoff happens; no
\* inter-transaction delay and no observer.
RetryConfigs ==
    [atomic : {FALSE}, delayMs : {0}, maxRetries : 0..MaxRetries + 1,
     onProgress : {FALSE}]

NextRetry ==
    \/ \E n \in 0..MaxIntents :
          Len(creates) < MaxCreates /\ createBatch(Input(n))
    \/ \E c \in Calls, b \in BatchIds, n \in 0..MaxIntents,
          config \in RetryConfigs :
          execs < MaxExecs /\ executeBatch(c, b, n, config)
    \/ \E c \in Calls, nonce \in 0..MaxNonce : NonceReturn(c, nonce)
    \/ \E c \in Calls : NonceFail(c)
    \/ \E c \in Calls : SendReturn(c)
    \/ \E c \in Calls : SendFail(c)
    \/ \E c \in Calls, receipt \in Receipts : WaitReturn(c, receipt)
    \/ \E c \in Calls : WaitFail(c)
    \/ \E c \in Calls : BackoffDone(c)

SpecRetry == Init /\ [][NextRetry]_vars

\* ------------------------------------------------------- cost estimates
\* estimateBatchCost calls of one BatchManager, which may overlap each
\* other, next to createBatch calls and an atomic executeBatch call on a
\* list of at most one intent.
NextEstimate ==
    \/ \E n \in 0..MaxIntents :
          Len(creates) < MaxCreates /\ createBatch(Input(n))
    \/ \E c \in Calls, b \in BatchIds, n \in 0..1, config \in AtomicConfigs :
          execs < MaxExecs /\ ~config.onProgress /\ executeBatch(c, b, n, config)
    \/ \E c \in Calls, nonce \in 0..MaxNonce : NonceReturn(c, nonce)
    \/ \E c \in Calls : NonceFail(c)
    \/ \E c \in Calls : AtomicSendReturn(c)
    \/ \E c \in Calls : AtomicSendFail(c)
    \/ \E c \in Calls, receipt \in Receipts : AtomicWaitReturn(c, receipt)
    \/ \E c \in Calls : AtomicWaitFail(c)
    \/ \E e \in EstCalls, n \in 0..MaxIntents : estimateBatchCost(e, Input(n))
    \/ \E e \in EstCalls, estimate \in GasVals : EstimateGasReturn(e, estimate)
    \/ \E e \in EstCalls : EstimateGasFail(e)
    \/ \E e \in EstCalls, gasPrice \in GasPrices : GasPriceReturn(e, gasPrice)
    \/ \E e \in EstCalls : GasPriceFail(e)

SpecEstimate == Init /\ [][NextEstimate]_vars

\* ------------------------------------------------ two calls, one account
\* Two executeBatch calls of one BatchManager (one connection.address) on
\* two batches that createBatch has registered under different ids.  Each
\* await of a call is a point where the other call can run.  The calls run
\* without retries, delay or observer, and every receipt uses one gas unit.
Calls2 == {1, 2}
ConcConfigs == {config \in PlainConfigs : ~config.onProgress}
ConcReceipts == {receipt \in Receipts : receipt.gasUsed = 1}

InitConc ==
    \E n1 \in 1..MaxIntents, n2 \in 1..MaxIntents :
        /\ batches = <<WithIds(1, Input(n1)), WithIds(2, Input(n2))>>
        /\ activeBatches = <<FreshProgress(n1), FreshProgress(n2)>>
        /\ creates = <<[input |-> Input(n1), batchId |-> 1,
                        transactions |-> WithIds(1, Input(n1))],
                       [input |-> Input(n2), batchId |-> 2,
                        transactions |-> WithIds(2, Input(n2))]>>
        /\ call = [c \in Calls2 |-> IdleCall]
        /\ execCount = [b \in BatchIds |-> 0]
        /\ execs = 0
        /\ est = [e \in EstCalls |-> IdleEstimate]

NextConc ==
    \/ \E c \in Calls2, b \in {1, 2}, config \in ConcConfigs :
          /\ execCount[b] = 0
          /\ executeBatch(c, b, Len(batches[b]), config)
    \/ \E c \in Calls2, nonce \in 0..MaxNonce : NonceReturn(c, nonce)
    \/ \E c \in Calls2 : NonceFail(c)
    \/ \E c \in Calls2 : SendReturn(c)
    \/ \E c \in Calls2 : SendFail(c)
    \/ \E c \in Calls2, receipt \in ConcReceipts : WaitReturn(c, receipt)
    \/ \E c \in Calls2 : WaitFail(c)
    \/ \E c \in Calls2 : AtomicSendReturn(c)
    \/ \E c \in Calls2 : AtomicSendFail(c)
    \/ \E c \in Calls2, receipt \in ConcReceipts : AtomicWaitReturn(c, receipt)
    \/ \E c \in Calls2 : AtomicWaitFail(c)

SpecConc == InitConc /\ [][NextConc]_vars

\* ------------------------------------------------------------ properties
Sequential(r) == r.pc # "idle" /\ ~r.config.atomic
Atomic(r) == r.pc # "idle" /\ r.config.atomic
Returned(r) == r.pc = "done" /\ r.ret.kind = "result"
Raised(r) == r.pc = "done" /\ r.ret.kind = "error"

SumOK(p) == p.completed + p.failed + p.pending = p.total

\* C1: every progress record of a batch that createBatch made and that is
\* executed once, whether handed to onProgress or held in the table for
\* getBatchProgress, has completed + failed + pending = total.
C1_ProgressSum ==
    \A c \in Calls :
        LET r == call[c] IN
        (r.pc # "idle" /\ r.created /\ execCount[r.batchId] = 1) =>
            /\ \A k \in 1..Len(r.notified) :
                  r.notified[k] # Undefined => SumOK(r.notified[k])
            /\ Has(r.batchId) => SumOK(activeBatches[r.batchId])

\* C2: the starting nonce is read once, before any broadcast, and every
\* broadcast of position i carries nonce N + i, in both modes and on
\* every retry.
C2_NonceFixed ==
    \A c \in Calls :
        LET r == call[c] IN
        \A k \in 1..Len(r.sent) :
            /\ r.nonceReads = 1
            /\ r.nonce \in 0..MaxNonce
            /\ r.sent[k].id = r.transactions[r.sent[k].pos + 1].id
            /\ r.sent[k].nonce = r.nonce + r.sent[k].pos

\* a retry of a later intent was broadcast (sequential), nonce as claimed
C2_Witness ==
    \E c \in Calls : \E k \in 1..Len(call[c].sent) :
        /\ call[c].sent[k].attempt >= 1
        /\ call[c].sent[k].pos >= 1
        /\ call[c].sent[k].nonce = call[c].nonce + call[c].sent[k].pos

SentAt(r, pos) == {k \in 1..Len(r.sent) : r.sent[k].pos = pos}

\* C3: once the starting nonce is known, a sequential executeBatch call
\* never aborts: when it settles it has returned a BatchResult, and every
\* position was broadcast at least once at nonce N + i.
C3_NoEarlyAbort ==
    \A c \in Calls :
        LET r == call[c] IN
        (Sequential(r) /\ r.pc = "done" /\ r.nonce # -1) =>
            /\ r.ret.kind = "result"
            /\ \A pos \in 0..(N(r) - 1) :
                  \E k \in SentAt(r, pos) : r.sent[k].nonce = r.nonce + pos

\* C4: in atomic mode a receipt at position i that reports reverted makes
\* executeBatch raise an error naming that intent's id, after exactly i + 1
\* receipt waits (positions 0..i in order).
C4_AtomicShortCircuit ==
    \A c \in Calls :
        LET r == call[c] IN
        Atomic(r) =>
            \A a \in 1..Len(r.answers) :
                r.answers[a].fate = "reverted" =>
                    LET pos == r.answers[a].pos IN
                    /\ Raised(r)
                    /\ r.ret.name = "TransactionError"
                    /\ r.ret.message.cause.kind = "reverted"
                    /\ r.ret.message.cause.tx = r.transactions[pos + 1].id
                    /\ Len(r.waited) = pos + 1
                    /\ \A j \in 1..Len(r.waited) : r.waited[j].pos = j - 1

\* the first of two intents reverted: one receipt wait, none for the second
C4_Witness ==
    \E c \in Calls :
        LET r == call[c] IN
        /\ Atomic(r) /\ Raised(r) /\ N(r) >= 2
        /\ Len(r.sent) = N(r)
        /\ Len(r.waited) = 1
        /\ r.answers = <<[pos |-> 0, attempt |-> 0, fate |-> "reverted"]>>

Threw(r, pos, a) ==
    \E x \in 1..Len(r.answers) :
        /\ r.answers[x].pos = pos /\ r.answers[x].attempt = a
        /\ r.answers[x].fate \in {"broadcast error", "confirmation timeout"}
Got(r, pos, a, status) ==
    \E x \in 1..Len(r.answers) :
        r.answers[x] = [pos |-> pos, attempt |-> a, fate |-> status]
Recorded(r, pos) == pos + 1 <= Len(r.results)

\* C5: executeWithRetry with maxRetries = k: k failed attempts and then a
\* success receipt give status success with retries = k; k + 1 failed
\* attempts give status failed with retries = k; an intent is never
\* broadcast more than k + 1 times.
C5_RetryOutcome ==
    \A c \in Calls :
        LET r == call[c]
            k == r.config.maxRetries
        IN
        Sequential(r) =>
            \A pos \in 0..(N(r) - 1) :
                /\ Cardinality(SentAt(r, pos)) <= k + 1
                /\ ((\A a \in 0..(k - 1) : Threw(r, pos, a))
                       /\ Got(r, pos, k, "success"))
                   => /\ Recorded(r, pos)
                      /\ r.results[pos + 1].status = "success"
                      /\ r.results[pos + 1].retries = k
                /\ (\A a \in 0..k : Threw(r, pos, a))
                   => /\ Recorded(r, pos)
                      /\ r.results[pos + 1].status = "failed"
                      /\ r.results[pos + 1].retries = k

\* with k = 1: the first intent failed twice, the second failed once and
\* then succeeded
C5_Witness ==
    \E c \in Calls :
        LET r == call[c] IN
        /\ Sequential(r) /\ r.config.maxRetries = 1 /\ Len(r.results) = 2
        /\ Threw(r, 0, 0) /\ Threw(r, 0, 1)
        /\ r.results[1].status = "failed" /\ r.results[1].retries = 1
        /\ Threw(r, 1, 0) /\ Got(r, 1, 1, "success")
        /\ r.results[2].status = "success" /\ r.results[2].retries = 1

\* C6: a returned BatchResult has exactly n outcomes and the k-th outcome
\* carries the id of the k-th input intent.
C6_OutcomePerIntent ==
    \A c \in Calls :
        LET r == call[c] IN
        Returned(r) =>
            /\ Len(r.ret.transactions) = N(r)
            /\ \A k \in 1..N(r) :
                  r.ret.transactions[k].id = r.transactions[k].id

\* a sequential result of two intents, one failed and one succeeded
C6_Witness ==
    \E c \in Calls :
        LET r == call[c] IN
        /\ Returned(r) /\ N(r) = 2 /\ Sequential(r)
        /\ r.ret.transactions[1].status = "failed"
        /\ r.ret.transactions[2].status = "success"

\* C7: in a returned BatchResult success is true exactly when every outcome
\* has status success, and the terminal status written to the progress
\* record before its removal is completed when success is true, failed
\* otherwise.
C7_SuccessFlag ==
    \A c \in Calls :
        LET r == call[c] IN
        Returned(r) =>
            /\ r.ret.success <=>
                  (\A k \in 1..Len(r.ret.transactions) :
                       r.ret.transactions[k].status = "success")
            /\ r.removed # Undefined =>
                  r.removed.status =
                      IF r.ret.success THEN "completed" ELSE "failed"

\* a result with one success and one failure, its record removed as failed
C7_Witness ==
    \E c \in Calls :
        LET r == call[c] IN
        /\ Returned(r) /\ ~r.ret.success /\ Len(r.ret.transactions) = 2
        /\ r.ret.transactions[1].status = "success"
        /\ r.ret.transactions[2].status = "failed"
        /\ r.removed # Undefined /\ r.removed.status = "failed"

RECURSIVE SumGasUsed(_)
SumGasUsed(outcomes) ==
    IF outcomes = <<>> THEN 0
    ELSE (IF outcomes[1].status = "success"
          THEN outcomes[1].receipt.gasUsed ELSE 0)
         + SumGasUsed(Tail(outcomes))

RECURSIVE SumCost(_)
SumCost(outcomes) ==
    IF outcomes = <<>> THEN 0
    ELSE (IF outcomes[1].status = "success"
          THEN outcomes[1].receipt.gasUsed
               * outcomes[1].receipt.effectiveGasPrice
          ELSE 0)
         + SumCost(Tail(outcomes))

Afters(log) == [k \in 1..Len(log) |-> log[k].after]
CountsChanged(m) ==
    \/ m.before.completed # m.after.completed
    \/ m.before.failed # m.after.failed
    \/ m.before.pending # m.after.pending
IsDefined(p) == p # Undefined

IsFailure(fate) ==
    fate \in {"broadcast error", "confirmation timeout", "reverted"}

\* after the failure of attempt a at pos the controller is in its backoff
\* or has broadcast attempt a + 1
Retried(r, pos, a) ==
    \/ r.pc = "backoff" /\ r.i = pos /\ r.attempt = a
    \/ \E s \in SentAt(r, pos) : r.sent[s].attempt = a + 1

\* C10 as stated: in sequential mode a broadcast error, a confirmation
\* timeout and a reverted receipt are all retried while attempt <
\* maxRetries, a failed outcome is recorded only after the retries are
\* exhausted, and no failure aborts the path.
C10_AllFailuresRetried ==
    \A c \in Calls :
        LET r == call[c]
            k == r.config.maxRetries
        IN
        Sequential(r) =>
            /\ \A x \in 1..Len(r.answers) :
                  (IsFailure(r.answers[x].fate) /\ r.answers[x].attempt < k)
                  => Retried(r, r.answers[x].pos, r.answers[x].attempt)
            /\ \A pos \in 0..(N(r) - 1) :
                  (Recorded(r, pos) /\ r.results[pos + 1].status = "failed")
                  => Cardinality(SentAt(r, pos)) = k + 1
            /\ (r.pc = "done" /\ r.nonce # -1) => r.ret.kind = "result"

\* C10 (amended): in sequential mode a broadcast error or a confirmation
\* timeout is retried while attempt < maxRetries and gives a failed outcome
\* only at attempt = maxRetries; a reverted receipt is not retried, it is
\* recorded at once as failed with retries = attempt; in each case the
\* retry controller hands back an outcome.
C10_ThrownFailuresRetried ==
    \A c \in Calls :
        LET r == call[c]
            k == r.config.maxRetries
        IN
        Sequential(r) =>
            \A x \in 1..Len(r.answers) :
                LET pos == r.answers[x].pos
                    a == r.answers[x].attempt
                    fate == r.answers[x].fate
                IN
                /\ (fate \in {"broadcast error", "confirmation timeout"}
                       /\ a < k)
                   => Retried(r, pos, a)
                /\ (fate \in {"broadcast error", "confirmation timeout"}
                       /\ a = k)
                   => /\ Recorded(r, pos)
                      /\ r.results[pos + 1].status = "failed"
                      /\ r.results[pos + 1].error = fate
                      /\ r.results[pos + 1].retries = k
                      /\ Cardinality(SentAt(r, pos)) = k + 1
                /\ fate = "reverted"
                   => /\ Recorded(r, pos)
                      /\ r.results[pos + 1].status = "failed"
                      /\ r.results[pos + 1].receipt.status = "reverted"
                      /\ r.results[pos + 1].retries = a
                      /\ Cardinality(SentAt(r, pos)) = a + 1

\* with maxRetries = 1: the first intent threw twice, the second reverted
\* on its first attempt and was not retried
C10_Witness ==
    \E c \in Calls :
        LET r == call[c] IN
        /\ Sequential(r) /\ r.config.maxRetries = 1 /\ Len(r.results) = 2
        /\ Threw(r, 0, 0) /\ Threw(r, 0, 1)
        /\ r.results[1].retries = 1
        /\ Got(r, 1, 0, "reverted")
        /\ r.results[2].status = "failed" /\ r.results[2].retries = 0
        /\ Cardinality(SentAt(r, 1)) = 1

\* the call of slot c is the executeBatch call of batch b: it was started
\* after createBatch had returned b
CallOf(c, b) == call[c].batchId = b /\ call[c].pc # "idle" /\ call[c].created

\* C11: for a batch that createBatch made, getBatchProgress(batchId) gives a
\* record of status pending or executing from creation until the batch's
\* executeBatch call settles, gives nothing once that call has settled, and
\* never gives a record of status completed or failed.
C11_ProgressLifecycle ==
    \A b \in DOMAIN batches :
        /\ getBatchProgress(b) # Undefined
              => getBatchProgress(b).status \in {"pending", "executing"}
        /\ execCount[b] = 0 => getBatchProgress(b) # Undefined
        /\ \A c \in Calls : CallOf(c, b) /\ call[c].pc # "done"
                               => getBatchProgress(b) # Undefined
        /\ \A c \in Calls : CallOf(c, b) /\ call[c].pc = "done"
                               => getBatchProgress(b) = Undefined

\* pending -> executing -> (completed | failed), or no change
Forward(before, after) ==
    \/ before = after
    \/ before = "pending" /\ after = "executing"
    \/ before = "executing" /\ after \in {"completed", "failed"}

\* C12: the status of a batch's progress record only moves forward,
\* pending -> executing -> (completed or failed): no step of the engine sets
\* the status of a registered record back or from one terminal status to the
\* other, and no mutation reaches a terminal status from any status but
\* executing.
C12_StatusForward ==
    /\ [][\A b \in DOMAIN activeBatches \cap DOMAIN activeBatches' :
            Forward(activeBatches[b].status, activeBatches'[b].status)]_vars
    /\ [](\A c \in Calls : call[c].created =>
            \A k \in 1..Len(call[c].mutlog) :
               Forward(call[c].mutlog[k].before.status,
                       call[c].mutlog[k].after.status))

\* the settled value is a batch-fatal error that carries no outcome list
FatalOnly(ret) == ret.kind = "error" /\ "transactions" \notin DOMAIN ret

\* the settled value is a BatchResult with one final outcome per intent
Complete(r) ==
    /\ r.ret.kind = "result"
    /\ Len(r.ret.transactions) = N(r)
    /\ \A k \in 1..N(r) :
          /\ r.ret.transactions[k].id = r.transactions[k].id
          /\ r.ret.transactions[k].status \in {"success", "failed"}

\* C13: an executeBatch call that has settled either returned a BatchResult
\* with one outcome of status success or failed for each intent, or raised a
\* batch-fatal error that carries no outcome list; it never returned a result
\* for fewer intents than it was given, also not when the atomic path gave
\* up after some intents had confirmed.
C13_CompleteOrNothing ==
    \A c \in Calls :
        call[c].pc = "done" => Complete(call[c]) \/ FatalOnly(call[c].ret)

\* an atomic call gave up after a success receipt and raised
C13_Witness ==
    \E c \in Calls :
        /\ Atomic(call[c]) /\ Raised(call[c]) /\ N(call[c]) = 2
        /\ \E k \in 1..Len(call[c].answers) :
              call[c].answers[k].fate = "success"
        /\ FatalOnly(call[c].ret)

\* the call settled without ever getting a starting nonce
NonceLookupFailed(r) == r.pc = "done" /\ r.nonce = -1

\* the atomic call settled on a reverted receipt
AtomicReverted(r) ==
    /\ Atomic(r) /\ r.pc = "done" /\ Len(r.answers) > 0
    /\ r.answers[Len(r.answers)].fate = "reverted"

BatchLevelError(r) ==
    Raised(r) /\ r.ret.name = "TransactionError" /\ FatalOnly(r.ret)

\* C14: when the starting-nonce lookup fails, executeBatch raises a
\* batch-level TransactionError, nothing was broadcast, no receipt was
\* awaited, and the step that fails removes the batch's progress entry; an
\* atomic call that meets a reverted receipt raises the same batch-level
\* error and returns no result with a failed outcome.
C14_NonceFailureIsFatal ==
    /\ [](\A c \in Calls :
            /\ NonceLookupFailed(call[c]) =>
                  /\ BatchLevelError(call[c])
                  /\ call[c].ret.message.cause.kind = "nonce lookup"
                  /\ call[c].sent = <<>> /\ call[c].waited = <<>>
            /\ AtomicReverted(call[c]) => BatchLevelError(call[c]))
    /\ [][\A c \in Calls :
            call[c].pc = "nonce" /\ NonceLookupFailed(call'[c])
               => call'[c].batchId \notin DOMAIN activeBatches']_vars

\* the nonce lookup of a registered batch of two intents failed
C14_Witness ==
    \E c \in Calls :
        /\ NonceLookupFailed(call[c]) /\ N(call[c]) = 2
        /\ call[c].created /\ call[c].removed # Undefined

\* C15: the broadcast phase of the atomic path is concurrent: the send of
\* intent i+1 is issued without waiting for the send of intent i, so while
\* any send of an atomic call is outstanding all n sends have been issued.
C15_ConcurrentBroadcast ==
    \A c \in Calls :
        Atomic(call[c]) /\ call[c].pc = "asend"
           => Len(call[c].sent) = N(call[c])

\* the position whose receipt an atomic call met last
LastPos(r) == r.answers[Len(r.answers)].pos

BothInFlight ==
    \A c \in Calls2 : call[c].pc \notin {"idle", "nonce", "done"}

\* C17: the engine holds no per-account lock and coordinates no nonces
\* across batches.  Of two executeBatch calls on different batches of one
\* account, each reads the starting nonce once and broadcasts position i at
\* its own N + i whatever the other call has broadcast; so when both have
\* read the same N, their broadcasts of position i are two different
\* intents with the same nonce.
C17_NoNonceCoordination ==
    /\ \A c \in Calls2 :
          /\ call[c].pc # "idle" => call[c].nonceReads = 1
          /\ \A k \in 1..Len(call[c].sent) :
                call[c].sent[k].nonce = call[c].nonce + call[c].sent[k].pos
    /\ \A k1 \in 1..Len(call[1].sent), k2 \in 1..Len(call[2].sent) :
          call[1].nonce = call[2].nonce
          /\ call[1].sent[k1].pos = call[2].sent[k2].pos
             => /\ call[1].sent[k1].nonce = call[2].sent[k2].nonce
                /\ call[1].sent[k1].id # call[2].sent[k2].id

\* both calls are in flight on different batches, have read the same N, and
\* each has broadcast its intent of position 1 at nonce N + 1
C17_Witness ==
    /\ BothInFlight
    /\ call[1].batchId # call[2].batchId
    /\ call[1].nonce = call[2].nonce
    /\ \E k1 \in 1..Len(call[1].sent), k2 \in 1..Len(call[2].sent) :
          /\ call[1].sent[k1].pos = 1 /\ call[2].sent[k2].pos = 1
          /\ call[1].sent[k1].nonce = call[2].sent[k2].nonce
          /\ call[1].sent[k1].id # call[2].sent[k2].id

\* C18: createBatch on a list of n intents returns the intents in input
\* order with their fields unchanged, the intent at index i under the id
\* batchId-i, and registers under batchId the record {total: n,
\* completed: 0, failed: 0, pending: n, status: pending}, which
\* getBatchProgress(batchId) then gives; the step calls no collaborator and
\* changes no running call.
C18_CreateBatch ==
    [][Len(creates') = Len(creates) + 1 =>
          LET r == creates'[Len(creates')]
              n == Len(r.input)
              p == activeBatches'[r.batchId]
          IN  /\ Len(r.transactions) = n
              /\ \A k \in 1..n :
                    /\ DOMAIN r.transactions[k] = DOMAIN r.input[k] \cup {"id"}
                    /\ \A f \in DOMAIN r.input[k] :
                          r.transactions[k][f] = r.input[k][f]
                    /\ r.transactions[k].id = TxId(r.batchId, k - 1)
              /\ r.batchId \in DOMAIN activeBatches'
              /\ p.total = n /\ p.completed = 0 /\ p.failed = 0
              /\ p.pending = n /\ p.status = "pending"
              /\ call' = call]_vars

\* createBatch has returned two intents and their record is in the table
C18_Witness ==
    /\ Len(creates) = 1
    /\ Len(creates[1].input) = 2
    /\ Len(creates[1].transactions) = 2
    /\ getBatchProgress(creates[1].batchId) = FreshProgress(2)

\* C19: any two createBatch calls return different batchIds; so no
\* createBatch step replaces the progress record of a batch that is still
\* registered, and no two batches share an intent id.
C19_UniqueBatchIds ==
    /\ [](\A i \in 1..Len(creates), j \in 1..Len(creates) :
            i # j =>
              /\ creates[i].batchId # creates[j].batchId
              /\ \A k \in 1..Len(creates[i].transactions),
                    l \in 1..Len(creates[j].transactions) :
                    creates[i].transactions[k].id # creates[j].transactions[l].id)
    /\ [][Len(creates') = Len(creates) + 1 =>
             creates'[Len(creates')].batchId \notin DOMAIN activeBatches]_vars

RECURSIVE SumSeq(_)
SumSeq(seq) == IF seq = <<>> THEN 0 ELSE Head(seq) + SumSeq(Tail(seq))

\* the k-th query of an estimateBatchCost call on its list: the estimate of
\* the k-th intent, and the gas price after the last intent
ExpectedQuery(r, k) ==
    IF k <= Len(r.transactions)
    THEN [kind |-> "estimateGas", to |-> r.transactions[k].to,
          value |-> r.transactions[k].value]
    ELSE [kind |-> "getGasPrice"]

\* C20: estimateBatchCost asks the chain for the gas estimate of each intent
\* once, in list order, and then for the gas price once; what it returns has
\* totalGasLimit = the sum of the estimates and estimatedCost =
\* totalGasLimit * gasPrice, both 0 for the empty list.
C20_EstimateSum ==
    \A e \in EstCalls :
        LET r == est[e]
            n == Len(r.transactions)
        IN  /\ Len(r.queries) <= n + 1
            /\ \A k \in 1..Len(r.queries) : r.queries[k] = ExpectedQuery(r, k)
            /\ (r.pc = "done" /\ r.ret.kind = "result") =>
                  /\ Len(r.queries) = n + 1
                  /\ Len(r.estimates) = n
                  /\ r.ret.totalGasLimit = SumSeq(r.estimates)
                  /\ r.ret.estimatedCost = r.ret.totalGasLimit * r.gasPrice
                  /\ n = 0 => r.ret.totalGasLimit = 0 /\ r.ret.estimatedCost = 0

\* an estimate of two intents with different answers has returned
C20_Witness ==
    \E e \in EstCalls :
        /\ est[e].pc = "done" /\ est[e].ret.kind = "result"
        /\ Len(est[e].transactions) = 2
        /\ est[e].estimates = <<1, 2>>
        /\ est[e].ret.totalGasLimit = 3
        /\ est[e].ret.estimatedCost = 3 * est[e].gasPrice

EstimateReturned(r) == r.pc = "done" /\ r.ret.kind = "result"

\* two calls were given the same list and the chain the same answers
SameQuestion(r1, r2) ==
    /\ r1.transactions = r2.transactions
    /\ r1.estimates = r2.estimates
    /\ r1.gasPrice = r2.gasPrice

\* C21: estimateBatchCost is idempotent: two calls on the same list that
\* get the same gas estimates and the same gas price return the same
\* totalGasLimit and the same estimatedCost, whatever createBatch and
\* executeBatch did before or between them.
C21_EstimateIdempotent ==
    \A e1 \in EstCalls, e2 \in EstCalls :
        (/\ EstimateReturned(est[e1]) /\ EstimateReturned(est[e2])
         /\ SameQuestion(est[e1], est[e2]))
        => /\ est[e1].ret.totalGasLimit = est[e2].ret.totalGasLimit
           /\ est[e1].ret.estimatedCost = est[e2].ret.estimatedCost

\* two estimates of the same two intents with the same answers have
\* returned, a batch was created and an executeBatch call has run
C21_Witness ==
    /\ EstimateReturned(est[1]) /\ EstimateReturned(est[2])
    /\ SameQuestion(est[1], est[2])
    /\ Len(est[1].transactions) = 2
    /\ est[1].ret.totalGasLimit = est[2].ret.totalGasLimit
    /\ Len(creates) > 0
    /\ \E c \in Calls : call[c].pc = "done"

\* the most broadcasts a call can make for its list and its config
MaxBroadcasts(r) ==
    IF r.config.atomic THEN N(r) ELSE N(r) * (r.config.maxRetries + 1)

\* C22: when everything a call awaits settles in the end, every executeBatch
\* call settles in the end, and it never makes more than n * (maxRetries + 1)
\* broadcasts in sequential mode or more than n in atomic mode.
C22_Settles ==
    /\ \A c \in Calls :
          (call[c].pc \notin {"idle", "done"}) ~> (call[c].pc = "done")
    /\ [](\A c \in Calls : Len(call[c].sent) <= MaxBroadcasts(call[c]))

\* a sequential call on two intents with one retry has settled after four
\* broadcasts
C22_Witness ==
    \E c \in Calls :
        /\ Sequential(call[c]) /\ call[c].pc = "done"
        /\ N(call[c]) = 2 /\ call[c].config.maxRetries = 1
        /\ Len(call[c].sent) = 4

\* the outcomes a call has recorded so far, in the order it recorded them
Outcomes(r) == IF r.config.atomic THEN r.aresults ELSE r.results

\* how many of the first k outcomes have the given status
CountStatus(outcomes, k, status) ==
    Cardinality({j \in 1..k : outcomes[j].status = status})

\* C23: in every progress snapshot handed to the observer, in either mode,
\* completed is the number of intents recorded as success so far, failed is
\* the number recorded as failed so far, and pending is the number of
\* intents without an outcome (the k-th snapshot follows the k-th outcome).
C23_SnapshotCounts ==
    \A c \in Calls :
        LET r == call[c] IN
        (r.pc # "idle" /\ r.created) =>
            \A k \in 1..Len(r.notified) :
                (r.notified[k] # Undefined /\ k <= Len(Outcomes(r))) =>
                    /\ r.notified[k].completed =
                          CountStatus(Outcomes(r), k, "success")
                    /\ r.notified[k].failed =
                          CountStatus(Outcomes(r), k, "failed")
                    /\ r.notified[k].pending = N(r) - k

\* the receipt waits of a call that have been answered
ReceiptAnswers(r) ==
    {x \in 1..Len(r.answers) :
        r.answers[x].fate \in {"success", "reverted", "confirmation timeout"}}

\* the broadcast of position pos was refused
BroadcastFailed(r, pos) ==
    \E x \in 1..Len(r.answers) :
        r.answers[x].pos = pos /\ r.answers[x].fate = "broadcast error"

C25_SequentialOrder ==
    \A c \in Calls :
        LET r == call[c] IN
        Sequential(r) =>
            /\ \A k \in 1..Len(r.sent) : r.sent[k].pos <= Len(r.results)
            /\ \A k \in 1..Len(r.sent) - 1 : r.sent[k].pos <= r.sent[k + 1].pos
            /\ r.pc \in {"send", "wait", "backoff"} =>
                  r.sent[Len(r.sent)].pos = Len(r.results)
            /\ Len(r.sent) - Len(r.answers) \in {0, 1}

\* intent 1 of 2 is awaiting its receipt after intent 0 was recorded
C25_Witness ==
    \E c \in Calls :
        /\ Sequential(call[c]) /\ N(call[c]) = 2 /\ call[c].pc = "wait"
        /\ Len(call[c].results) = 1
        /\ call[c].sent[Len(call[c].sent)].pos = 1

\* the suspensions that the answers 1..k of a call ask for: 2^a * 1000 ms
\* after a thrown attempt a < maxRetries, none after any other answer
RECURSIVE Backoffs(_, _)
Backoffs(r, k) ==
    IF k = 0 THEN <<>>
    ELSE LET x == r.answers[k]
             thrown == x.fate \in {"broadcast error", "confirmation timeout"}
         IN  Backoffs(r, k - 1) \o
                 (IF thrown /\ x.attempt < r.config.maxRetries
                  THEN <<(2 ^ x.attempt) * 1000>> ELSE <<>>)

\* C26: executeWithRetry suspends for 2^a * 1000 ms after the failed attempt
\* a when a < maxRetries, before attempt a + 1; it does not suspend after
\* the failed attempt a = maxRetries nor after an attempt that got a receipt.
\* (The calls run without inter-transaction delay, so every suspension of a
\* call is a backoff.)
C26_Backoff ==
    \A c \in Calls :
        LET r == call[c] IN
        (Sequential(r) /\ r.config.delayMs = 0) =>
            /\ r.delays = Backoffs(r, Len(r.answers))
            /\ r.pc = "backoff" => r.attempt < r.config.maxRetries

\* attempts 0 and 1 of intent 0 threw and attempt 2 is on its way after
\* suspensions of 1000 and 2000 ms
C26_Witness ==
    \E c \in Calls :
        /\ Sequential(call[c]) /\ call[c].config.maxRetries = 2
        /\ call[c].delays = <<1000, 2000>>
        /\ call[c].attempt = 2 /\ call[c].pc = "send"

\* C27: estimateBatchCost is read-only: all it asks of the chain are gas
\* estimates and the gas price (no broadcast, no nonce lookup), and none of
\* its steps, failing ones included, changes the progress table or what
\* any executeBatch call has sent or read.
C27_EstimateReadOnly ==
    /\ [](\A e \in EstCalls : \A k \in 1..Len(est[e].queries) :
            est[e].queries[k].kind \in {"estimateGas", "getGasPrice"})
    /\ [][est' # est =>
             /\ activeBatches' = activeBatches
             /\ call' = call
             /\ batches' = batches]_vars

\* an estimate has failed and another has returned while a batch is
\* registered
C27_Witness ==
    /\ \E e \in EstCalls : est[e].pc = "done" /\ est[e].ret.kind = "error"
    /\ \E e \in EstCalls : EstimateReturned(est[e])
    /\ activeBatches # <<>>

\* the call has found no progress entry to change so far
NoEntry(r) == r.mutlog = <<>>

\* the positions whose recorded outcome is failed
FailedAt(r) == {k \in 1..Len(r.results) : r.results[k].status = "failed"}

\* C28: a sequential executeBatch call on a batchId without progress entry
\* (the batch is executed again after its execution settled, or the id was
\* never created) returns a BatchResult when every intent succeeds; as soon
\* as one intent ends failed the call raises a batch-fatal error without
\* outcomes and broadcasts no later intent.
C28_MissingEntry ==
    \A c \in Calls :
        LET r == call[c] IN
        (Sequential(r) /\ NoEntry(r) /\ N(r) > 0) =>
            /\ \A k \in FailedAt(r) :
                  /\ k = Len(r.results)
                  /\ Raised(r) /\ FatalOnly(r.ret)
                  /\ \A x \in 1..Len(r.sent) : r.sent[x].pos <= k - 1
            /\ (r.pc = "done" /\ r.nonce # -1 /\ FailedAt(r) = {}) =>
                  Returned(r) /\ Complete(r) /\ r.ret.success

\* a batch of two intents is executed a second time and its intent 0 fails
C28_Witness ==
    \E c \in Calls :
        LET r == call[c] IN
        /\ Sequential(r) /\ NoEntry(r) /\ N(r) = 2
        /\ r.created /\ execCount[r.batchId] = 2
        /\ FailedAt(r) = {1} /\ Raised(r) /\ Len(r.sent) = 1

\* C29: in sequential mode an intent whose receipt reports reverted is
\* recorded as failed, with that receipt and with retries = the number of
\* the attempt that got it, and its gas and cost are left out of the
\* totals: totalGasUsed and totalCost, while the call runs and in the
\* BatchResult it returns, sum over the success outcomes only.
C29_RevertedNotCounted ==
    \A c \in Calls :
        LET r == call[c] IN
        Sequential(r) =>
            /\ \A x \in 1..Len(r.answers) :
                  r.answers[x].fate = "reverted" =>
                      LET o == r.results[r.answers[x].pos + 1] IN
                      /\ o.id = r.transactions[r.answers[x].pos + 1].id
                      /\ o.status = "failed"
                      /\ o.receipt # NoReceipt
                      /\ o.receipt.status = "reverted"
                      /\ o.retries = r.answers[x].attempt
            /\ r.totalGasUsed = SumGasUsed(r.results)
            /\ r.totalCost = SumCost(r.results)
            /\ Returned(r) =>
                  /\ r.ret.totalGasUsed = SumGasUsed(r.results)
                  /\ r.ret.totalCost = SumCost(r.results)

\* intent 0 reverted on its second attempt, intent 1 confirmed, and the
\* returned totals are those of intent 1
C29_Witness ==
    \E c \in Calls :
        LET r == call[c] IN
        /\ Sequential(r) /\ Returned(r) /\ N(r) = 2
        /\ r.results[1].status = "failed"
        /\ r.results[1].receipt.status = "reverted"
        /\ r.results[1].retries = 1
        /\ r.results[2].status = "success"
        /\ r.ret.totalGasUsed = r.results[2].receipt.gasUsed

\* C30: in every progress snapshot handed to the observer, in either mode,
\* currentTransaction is the id of the intent whose outcome or confirmation
\* caused the notification: the k-th snapshot, which follows the recording
\* of the k-th intent (sequential) or the confirmation of the k-th receipt
\* (atomic), names the k-th intent.
C30_SnapshotCurrent ==
    \A c \in Calls :
        LET r == call[c] IN
        (r.pc # "idle" /\ r.created) =>
            \A k \in 1..Len(r.notified) :
                (r.notified[k] # Undefined /\ k <= Len(Outcomes(r))) =>
                    r.notified[k].currentTransaction = r.transactions[k].id

====
